---- MODULE Spec2Model ----
(***************************************************************************)
(* The ledger of lms/accounts: shops, deposits, payments, bills, bill      *)
(* items and the settings singleton, with the request handlers of          *)
(* views.py as actions.                                                    *)
(*                                                                         *)
(* Units.  Every DecimalField has decimal_places=2 and is held here as an  *)
(* integer number of hundredths (1000.00 is 100000).  A product of two     *)
(* such values is an integer number of ten-thousandths until it is stored  *)
(* (Quantize2).  Dates are day indices 1..MaxDay, day d being 2024-01-0d.  *)
(* Strings the code takes apart (bill_number) are sequences of ASCII code  *)
(* points.                                                                 *)
(***************************************************************************)
EXTENDS Integers, Sequences, FiniteSets, TLC

VARIABLES
    today,        \* timezone.now(): the current calendar day
    db_rounding,  \* how the database backend rounds a tie when it stores a decimal
    settings,     \* the Settings row (pk=1)
    shops,        \* Shop rows
    deposits,     \* Deposit rows, in insertion order
    payments,     \* Payment rows, in insertion order
    bills,        \* Bill rows
    items,        \* BillItem rows of each bill (by bill id), ordered by created_at
    nextShopId,   \* next Shop primary key
    nextBillId,   \* next Bill primary key
    last,         \* the response to the last request
    procs,        \* the requests in progress, one per worker, when requests overlap
    issued        \* history: the bill numbers the requests so far have stored

vars == <<today, db_rounding, settings, shops, deposits, payments, bills, items,
          nextShopId, nextBillId, last, procs, issued>>

----------------------------------------------------------------------------
(* Bounds of the model *)

MaxDay == 2
MaxShops == 2
MaxEntries == 1        \* Deposit and Payment rows added by add_deposit, add_payment
MaxBills == 2          \* bills created under SpecCredit
MaxTotalsBills == 2    \* bills created under SpecTotals
MaxDaysBills == 2      \* bills created under SpecDays
MaxOverflowBills == 3  \* bills created under SpecOverflow, after the stored ones
MaxInputBills == 1     \* bills created under SpecInput, and under SpecShops

----------------------------------------------------------------------------
(* Inputs of the requests *)

Days == 1..MaxDay
Methods == {"GET", "POST"}

\* One submitted item row: the three strings of the form, already parsed
\* (int(bags), Decimal(weight), Decimal(rate)); a blank row has an empty
\* field; a bad row has a field that is no number, so that int() or Decimal()
\* raises.
BlankRow == [blank |-> TRUE, raises |-> FALSE,
             number_of_bags |-> 0, weight_kg |-> 0, rate_per_kg |-> 0]
BadRow == [blank |-> FALSE, raises |-> TRUE,
           number_of_bags |-> 0, weight_kg |-> 0, rate_per_kg |-> 0]
Row(b, w, r) == [blank |-> FALSE, raises |-> FALSE,
                 number_of_bags |-> b, weight_kg |-> w, rate_per_kg |-> r]

RowCent == Row(1, 1, 100)          \* 0.01 kg at 1.00: 0.01
RowBig == Row(1, 499999, 100)      \* 4999.99 kg at 1.00: 4999.99
RowTie == Row(3, 50, 5)            \* 0.50 kg at 0.05: 0.0250, a tie
RowDown == Row(2, 1, 5)            \* 0.01 kg at 0.05: 0.0005, rounds to 0.00
RowUp == Row(1, 499999, 5)         \* 4999.99 kg at 0.05: 249.9995, rounds to 250.00
RowSpec == Row(3, 10000, 2000)     \* 3 bags, 100 kg at 20.00: 2000.00
RowZero == Row(0, 0, 0)            \* no bag, 0.00 kg at 0.00

----------------------------------------------------------------------------
(* Decimal storage *)

Abs(x) == IF x < 0 THEN -x ELSE x

\* A value in ten-thousandths written to a decimal_places=2 column and read
\* back: rounded to the nearest hundredth.  A tie goes to the even hundredth
\* (decimal's ROUND_HALF_EVEN, applied by Django) or away from zero (a
\* NUMERIC column rounding the value itself), as the backend does.
Quantize2_truncate(x4, mode) ==
    LET m == Abs(x4) \div 100 IN IF x4 < 0 THEN -m ELSE m

Quantize2(x4, mode) ==
    LET a == Abs(x4)
        q == a \div 100
        r == a % 100
        up == IF r > 50 THEN TRUE
              ELSE IF r < 50 THEN FALSE
              ELSE IF mode = "half_up" THEN TRUE
              ELSE q % 2 = 1
        m == IF up THEN q + 1 ELSE q
    IN IF x4 < 0 THEN -m ELSE m

RECURSIVE SumSeq(_)
\* sum(...) of a sequence of numbers; 0 over no rows
SumSeq(s) == IF s = <<>> THEN 0 ELSE Head(s) + SumSeq(Tail(s))

\* aggregate(Sum(field)) over a sequence of rows
Amounts(rows) == [i \in 1..Len(rows) |-> rows[i].amount]

RECURSIVE SumByValue(_, _)
SumByValue(vals, S) ==
    IF vals = {} THEN 0
    ELSE LET v == CHOOSE x \in vals : TRUE
         IN v * Cardinality({b \in S : b.total_amount = v}) + SumByValue(vals \ {v}, S)

\* aggregate(Sum('total_amount')) over a set of Bill rows: each distinct value
\* times the number of rows that hold it
SumTotalAmount(S) == SumByValue({b.total_amount : b \in S}, S)

SelectRows(s, shop_id) == SelectSeq(s, LAMBDA d : d.shop = shop_id)

----------------------------------------------------------------------------
(* Shop: the balance and credit properties *)

total_deposits(shop_id) == SumSeq(Amounts(SelectRows(deposits, shop_id)))

total_bills(shop_id) == SumTotalAmount({b \in bills : b.shop = shop_id})

total_payments(shop_id) == SumSeq(Amounts(SelectRows(payments, shop_id)))

pending_amount_unpaid(shop_id) == total_bills(shop_id)

pending_amount(shop_id) == total_bills(shop_id) - total_payments(shop_id)

credit_limit(shop_id) == total_deposits(shop_id) * 5

can_create_bill_le(shop_id) == pending_amount(shop_id) <= credit_limit(shop_id)

can_create_bill(shop_id) == pending_amount(shop_id) < credit_limit(shop_id)

get_daily_bills(shop_id, date) == {b \in bills : b.shop = shop_id /\ b.bill_date = date}

get_daily_total(shop_id, date) == SumTotalAmount(get_daily_bills(shop_id, date))

get_cumulative_bills_up_to_date(shop_id, date) ==
    SumTotalAmount({b \in bills : b.shop = shop_id /\ b.bill_date <= date})

get_net_amount_up_to_date(shop_id, date) ==
    LET bills_up_to_date == SumTotalAmount({b \in bills : b.shop = shop_id /\ b.bill_date <= date})
        payments_up_to_date ==
            SumSeq(Amounts(SelectSeq(payments,
                                     LAMBDA x : x.shop = shop_id /\ x.payment_date <= date)))
    IN bills_up_to_date - payments_up_to_date

----------------------------------------------------------------------------
(* Strings: bill numbers are sequences of ASCII code points *)

Dash == 45
Digit(d) == 48 + d
BillPrefix == <<66, 73, 76, 76, Dash>>   \* "BILL-"

RECURSIVE Decimal_digits(_)
\* str(n) for n >= 0
Decimal_digits(n) ==
    IF n < 10 THEN <<Digit(n)>> ELSE Append(Decimal_digits(n \div 10), Digit(n % 10))

RECURSIVE ZeroPad(_, _)
ZeroPad(s, width) == IF Len(s) >= width THEN s ELSE ZeroPad(<<Digit(0)>> \o s, width)

\* f'{n:0<width>d}': at least width digits, zero-padded on the left
Format_d(n, width) == ZeroPad(Decimal_digits(n), width)

\* strftime('%Y%m%d') of day d of January 2024
strftime_Ymd(d) == Format_d(2024, 4) \o Format_d(1, 2) \o Format_d(d, 2)

StartsWith(s, p) == Len(s) >= Len(p) /\ SubSeq(s, 1, Len(p)) = p

RECURSIVE SplitLast(_, _)
\* s.split(sep)[-1]: what follows the last sep
SplitLast(s, sep) ==
    IF s = <<>> \/ s[Len(s)] = sep THEN <<>>
    ELSE Append(SplitLast(SubSeq(s, 1, Len(s) - 1), sep), s[Len(s)])

RECURSIVE ParseInt(_)
\* int(s) of a string of digits
ParseInt(s) ==
    IF s = <<>> THEN 0
    ELSE 10 * ParseInt(SubSeq(s, 1, Len(s) - 1)) + (s[Len(s)] - Digit(0))

MaxOf(T) == CHOOSE m \in T : \A t \in T : t <= m

RECURSIVE GreatestFrom(_, _)
\* The greatest string of S in the order of the code points (a proper prefix
\* is less than its extensions); the strings of S agree before position i.
GreatestFrom(S, i) ==
    LET longer == {s \in S : Len(s) >= i}
    IN IF longer = {} THEN CHOOSE s \in S : TRUE
       ELSE LET c == MaxOf({s[i] : s \in longer})
            IN GreatestFrom({s \in longer : s[i] = c}, i + 1)

\* order_by('-bill_number').first() over a non-empty set of strings that all
\* start with prefix
Greatest(S, prefix) == GreatestFrom(S, Len(prefix) + 1)

----------------------------------------------------------------------------
(* Bill.save, Bill.calculate_totals, BillItem.save *)

SuffixWidth == 4

generate_bill_number_any_day(bs, day) ==
    LET all == {b.bill_number : b \in bs}
        new_num == IF all # {}
                   THEN ParseInt(SplitLast(Greatest(all, BillPrefix), Dash)) + 1
                   ELSE 1
    IN BillPrefix \o strftime_Ymd(day) \o <<Dash>> \o Format_d(new_num, SuffixWidth)

\* The number Bill.save generates on day `day` with the Bill rows bs stored.
generate_bill_number(bs, day) ==
    LET date_str == strftime_Ymd(day)
        prefix == BillPrefix \o date_str
        todays == {b.bill_number : b \in {x \in bs : StartsWith(x.bill_number, prefix)}}
        new_num == IF todays # {}
                   THEN ParseInt(SplitLast(Greatest(todays, prefix), Dash)) + 1
                   ELSE 1
    IN BillPrefix \o date_str \o <<Dash>> \o Format_d(new_num, SuffixWidth)

Bill_save_renumber(b, bs, day) == [b EXCEPT !.bill_number = generate_bill_number(bs, day)]

\* The row Bill.save writes for the object b.
Bill_save(b, bs, day) ==
    IF b.bill_number = <<>>
    THEN [b EXCEPT !.bill_number = generate_bill_number(bs, day)]
    ELSE b

UniqueViolation_none(b, bs) == FALSE

\* unique=True on bill_number: the write of row b is rejected (IntegrityError)
UniqueViolation(b, bs) == \E o \in bs : o.id # b.id /\ o.bill_number = b.bill_number

\* The BillItem row written for a submitted row under gunny bag cost `gunny`.
BillItem_save(row, gunny, mode) ==
    [number_of_bags |-> row.number_of_bags,
     weight_kg      |-> row.weight_kg,
     rate_per_kg    |-> row.rate_per_kg,
     total_price    |-> Quantize2(row.weight_kg * row.rate_per_kg, mode),
     gunny_cost     |-> Quantize2(row.number_of_bags * gunny * 100, mode)]

Prices(its) == [i \in 1..Len(its) |-> its[i].total_price]
GunnyCostsOf(its) == [i \in 1..Len(its) |-> its[i].gunny_cost]

calculate_totals_no_gunny(b, its, bs, day, mode) ==
    Bill_save([b EXCEPT !.subtotal = Quantize2(SumSeq(Prices(its)) * 100, mode),
                        !.gunny_bag_cost = Quantize2(SumSeq(GunnyCostsOf(its)) * 100, mode),
                        !.total_amount = Quantize2(SumSeq(Prices(its)) * 100, mode)],
              bs, day)

\* Bill.calculate_totals on the object b whose stored items are its: the row
\* it saves.
calculate_totals(b, its, bs, day, mode) ==
    LET subtotal == SumSeq(Prices(its))
        gunny_bag_cost == SumSeq(GunnyCostsOf(its))
        total_amount == subtotal + gunny_bag_cost
    IN Bill_save([b EXCEPT !.subtotal = Quantize2(subtotal * 100, mode),
                           !.gunny_bag_cost = Quantize2(gunny_bag_cost * 100, mode),
                           !.total_amount = Quantize2(total_amount * 100, mode)],
                 bs, day)

PutBill(bs, b) == {o \in bs : o.id # b.id} \cup {b}

RECURSIVE create_items(_, _, _)
\* The loop over the submitted rows: BillItem.objects.create for each row
\* that is not blank, each followed by the bill's calculate_totals.  db is
\* the stored [bills, items] and whether the loop has raised; bill is the
\* view's Bill object.  A bad row raises before its item is created and
\* ends the loop; what was written before it stays written.
create_items(db, bill, rows) ==
    IF rows = <<>> THEN db
    ELSE IF Head(rows).blank THEN create_items(db, bill, Tail(rows))
    ELSE IF Head(rows).raises THEN [db EXCEPT !.raised = TRUE]
    ELSE LET item == BillItem_save(Head(rows), settings.gunny_bag_cost, db_rounding)
             its == Append(db.items[bill.id], item)
             saved == calculate_totals(bill, its, db.bills, today, db_rounding)
         IN create_items([bills |-> PutBill(db.bills, saved),
                          items |-> [db.items EXCEPT ![bill.id] = its],
                          raised |-> FALSE],
                         saved, Tail(rows))

----------------------------------------------------------------------------
(* The requests *)

\* What the response shows: the message or page ("ok": messages.success,
\* "error": the exception, "refused": the credit message of bill_create,
\* "not_today": the message of bill_edit, "form": the bill form, "report":
\* the day-wise page, "attribute_error": the exception of day_wise_bills),
\* and the shop a "refused" or "form" response of bill_create is about.
Response(outcome, shop_id) == [outcome |-> outcome, shop |-> shop_id]

ShopIds == {s.id : s \in shops}

shop_create_without_deposit(name, initial_deposit) ==
    /\ IF \E s \in shops : s.name = name
       THEN /\ UNCHANGED <<shops, nextShopId>>
            /\ last' = Response("error", 0)
       ELSE /\ shops' = shops \cup {[id |-> nextShopId, name |-> name,
                                      initial_deposit |-> Quantize2(initial_deposit * 100, db_rounding),
                                      is_active |-> TRUE]}
            /\ nextShopId' = nextShopId + 1
            /\ last' = Response("ok", 0)
    /\ UNCHANGED <<procs, issued, today, db_rounding, settings, deposits, payments, bills,
                   items, nextBillId>>

\* shop_create, POST
shop_create(name, initial_deposit) ==
    /\ IF \E s \in shops : s.name = name
       THEN \* unique=True on name: IntegrityError, caught
            /\ UNCHANGED <<shops, deposits, nextShopId>>
            /\ last' = Response("error", 0)
       ELSE /\ shops' = shops \cup {[id |-> nextShopId, name |-> name,
                                      initial_deposit |-> Quantize2(initial_deposit * 100, db_rounding),
                                      is_active |-> TRUE]}
            /\ deposits' = Append(deposits, [shop |-> nextShopId,
                                              amount |-> Quantize2(initial_deposit * 100, db_rounding),
                                              deposit_date |-> today])
            /\ nextShopId' = nextShopId + 1
            /\ last' = Response("ok", 0)
    /\ UNCHANGED <<procs, issued, today, db_rounding, settings, payments, bills,
                   items, nextBillId>>

\* settings_view, POST with action=create_shop: the two writes of shop_create
create_shop(name, initial_deposit) == shop_create(name, initial_deposit)

\* shop_create or create_shop, POST with an initial deposit (or bill limit)
\* that is no number: Decimal() or int() raises before Shop.objects.create
shop_create_raises(name) ==
    /\ last' = Response("error", 0)
    /\ UNCHANGED <<procs, issued, today, db_rounding, settings, shops, deposits, payments,
                   bills, items, nextShopId, nextBillId>>

\* add_deposit or add_payment, POST with an amount that is no number:
\* Decimal() raises before the row is created
add_entry_raises(shop_id) ==
    /\ shop_id \in ShopIds
    /\ last' = Response("error", 0)
    /\ UNCHANGED <<procs, issued, today, db_rounding, settings, shops, deposits, payments,
                   bills, items, nextShopId, nextBillId>>

\* add_deposit, POST
add_deposit(shop_id, amount, deposit_date) ==
    /\ shop_id \in ShopIds
    /\ deposits' = Append(deposits, [shop |-> shop_id,
                                      amount |-> Quantize2(amount * 100, db_rounding),
                                      deposit_date |-> deposit_date])
    /\ last' = Response("ok", 0)
    /\ UNCHANGED <<procs, issued, today, db_rounding, settings, shops, payments,
                   bills, items,
                   nextShopId, nextBillId>>

\* add_payment, POST
add_payment(shop_id, amount, payment_date) ==
    /\ shop_id \in ShopIds
    /\ payments' = Append(payments, [shop |-> shop_id,
                                      amount |-> Quantize2(amount * 100, db_rounding),
                                      payment_date |-> payment_date])
    /\ last' = Response("ok", 0)
    /\ UNCHANGED <<procs, issued, today, db_rounding, settings, shops, deposits,
                   bills, items,
                   nextShopId, nextBillId>>

\* bill_create
bill_create(method, shop_id, bill_date, notes, rows) ==
    /\ shop_id \in ShopIds
    /\ IF ~can_create_bill(shop_id)
       THEN /\ UNCHANGED <<bills, items, nextBillId>>
            /\ last' = Response("refused", shop_id)
       ELSE IF method = "GET"
       THEN /\ UNCHANGED <<bills, items, nextBillId>>
            /\ last' = Response("form", shop_id)
       ELSE LET bill == Bill_save([id |-> nextBillId, shop |-> shop_id, bill_number |-> <<>>,
                                   bill_date |-> bill_date, subtotal |-> 0,
                                   gunny_bag_cost |-> 0, total_amount |-> 0,
                                   notes |-> notes, created_at |-> today],
                                  bills, today)
            IN IF UniqueViolation(bill, bills)
               THEN \* IntegrityError on Bill.objects.create, caught
                    /\ UNCHANGED <<bills, items, nextBillId>>
                    /\ last' = Response("error", 0)
               ELSE LET db == create_items([bills |-> bills \cup {bill},
                                            items |-> (bill.id :> <<>>) @@ items,
                                            raised |-> FALSE],
                                           bill, rows)
                    IN /\ bills' = db.bills
                       /\ items' = db.items
                       /\ nextBillId' = nextBillId + 1
                       /\ last' = IF db.raised
                                  THEN \* ValueError or InvalidOperation, caught
                                       Response("error", 0)
                                  ELSE Response("ok", 0)
    /\ issued' = issued \cup {b.bill_number : b \in {x \in bills' : x.id >= nextBillId}}
    /\ UNCHANGED <<procs, today, db_rounding, settings, shops, deposits, payments, nextShopId>>

\* bill_edit, POST
bill_edit(bill_id, notes, rows) ==
    /\ \E bill \in bills :
        /\ bill.id = bill_id
        /\ IF bill.bill_date # today
           THEN /\ UNCHANGED <<bills, items>>
                /\ last' = Response("not_today", 0)
           ELSE LET db == create_items([bills |-> bills,
                                        items |-> [items EXCEPT ![bill_id] = <<>>],
                                        raised |-> FALSE],
                                       [bill EXCEPT !.notes = notes], rows)
                IN /\ bills' = db.bills
                   /\ items' = db.items
                   /\ last' = IF db.raised
                              THEN \* not caught: the server error page
                                   Response("error", 0)
                              ELSE Response("ok", 0)
    /\ UNCHANGED <<procs, issued, today, db_rounding, settings, shops, deposits, payments,
                   nextShopId, nextBillId>>

\* bill_delete, POST
bill_delete(bill_id) ==
    /\ \E bill \in bills : bill.id = bill_id
    /\ bills' = {b \in bills : b.id # bill_id}
    /\ items' = [i \in DOMAIN items \ {bill_id} |-> items[i]]
    /\ last' = Response("ok", 0)
    /\ UNCHANGED <<procs, issued, today, db_rounding, settings, shops, deposits, payments,
                   nextShopId, nextBillId>>

update_settings_recompute(gunny_bag_cost) ==
    LET g == Quantize2(gunny_bag_cost * 100, db_rounding)
        its == [id \in DOMAIN items |->
                  [i \in 1..Len(items[id]) |->
                     [items[id][i] EXCEPT !.gunny_cost = items[id][i].number_of_bags * g]]]
    IN /\ settings' = [settings EXCEPT !.gunny_bag_cost = g]
       /\ items' = its
       /\ bills' = {calculate_totals(b, its[b.id], bills, today, db_rounding) : b \in bills}
       /\ last' = Response("ok", 0)
       /\ UNCHANGED <<procs, issued, today, db_rounding, shops, deposits, payments,
                      nextShopId, nextBillId>>

\* settings_view, POST with action=update_settings
update_settings(gunny_bag_cost) ==
    /\ settings' = [settings EXCEPT !.gunny_bag_cost = Quantize2(gunny_bag_cost * 100, db_rounding)]
    /\ last' = Response("ok", 0)
    /\ UNCHANGED <<procs, issued, today, db_rounding, shops, deposits, payments,
                   bills, items,
                   nextShopId, nextBillId>>

\* day_wise_bills, GET with start_date, end_date and shop (0: no shop given)
day_wise_bills(start_date, end_date, selected_shop_id) ==
    /\ selected_shop_id \in ShopIds \cup {0}
    /\ LET listed == IF selected_shop_id # 0
                     THEN {s \in shops : s.id = selected_shop_id}
                     ELSE {s \in shops : s.is_active}
       IN last' = IF start_date <= end_date /\ listed # {}
                  THEN \* Shop has no get_balance_up_to_date: AttributeError
                       Response("attribute_error", 0)
                  ELSE Response("report", 0)
    /\ UNCHANGED <<procs, issued, today, db_rounding, settings, shops, deposits, payments,
                   bills, items, nextShopId, nextBillId>>

\* Midnight passes.
NextDay ==
    /\ today < MaxDay
    /\ today' = today + 1
    /\ UNCHANGED <<procs, issued, db_rounding, settings, shops, deposits, payments,
                   bills, items,
                   nextShopId, nextBillId, last>>

----------------------------------------------------------------------------
(* The ledger from an empty database *)

NoResponse == Response("none", 0)

\* The workers that serve overlapping requests, and a worker without request
Procs == {1, 2}
NoBill == [id |-> 0]
Idle == [pc |-> "idle", handler |-> "none", bill |-> NoBill, rows |-> <<>>,
         read |-> <<>>, outcome |-> "none"]

Init ==
    /\ today = 1
    /\ db_rounding \in {"half_even", "half_up"}
    /\ settings = [gunny_bag_cost |-> 0]
    /\ shops = {}
    /\ deposits = <<>>
    /\ payments = <<>>
    /\ bills = {}
    /\ items = <<>>
    /\ nextShopId = 1
    /\ nextBillId = 1
    /\ last = NoResponse
    /\ procs = [p \in Procs |-> Idle]
    /\ issued = {}

----------------------------------------------------------------------------
(* The credit gate: deposits, payments and bills of exact amounts.  Every  *)
(* amount is a whole number of hundredths, so no tie is ever rounded and   *)
(* one backend stands for both.                                            *)

CreditShops == {<<"a", 100000>>, <<"b", 0>>}
CreditCreateLists == {<<RowBig>>, <<RowCent>>}
CreditEditLists == {<<>>, <<RowCent>>}

\* Rows added by add_deposit and add_payment (each shop has its initial deposit)
Entries == Len(deposits) - Cardinality(shops) + Len(payments)

InitCredit == Init /\ db_rounding = "half_even"

NextCredit ==
    \/ \E i \in CreditShops :
          nextShopId <= MaxShops /\ shop_create(i[1], i[2])
    \/ \E s \in ShopIds : Entries < MaxEntries /\ add_deposit(s, 1, today)
    \/ \E s \in ShopIds : Entries < MaxEntries /\ add_payment(s, 1, today)
    \/ \E s \in ShopIds : bill_create("GET", s, today, "", <<>>)
    \/ \E s \in ShopIds, rows \in CreditCreateLists :
          /\ nextBillId <= MaxBills \/ ~can_create_bill(s)
          /\ bill_create("POST", s, today, "", rows)
    \/ \E b \in bills, rows \in CreditEditLists : bill_edit(b.id, "", rows)
    \/ \E b \in bills : bill_delete(b.id)

SpecCredit == InitCredit /\ [][NextCredit]_vars

----------------------------------------------------------------------------
(* Bill totals: shops with a deposit of 1000.00, item rows whose prices   *)
(* round every way, the gunny bag cost changing, all within one day.       *)

TotalsShops == {<<"a", 100000>>}
TotalsCreateLists == {<<RowSpec>>, <<RowTie, RowUp>>}
TotalsEditLists == {<<>>, <<BlankRow, RowDown>>}
GunnyCosts == {0, 1000}

NextTotals ==
    \/ \E i \in TotalsShops :
          nextShopId <= MaxShops /\ shop_create(i[1], i[2])
    \/ \E s \in ShopIds, rows \in TotalsCreateLists :
          /\ nextBillId <= MaxTotalsBills \/ ~can_create_bill(s)
          /\ bill_create("POST", s, today, "", rows)
    \/ \E b \in bills, rows \in TotalsEditLists : bill_edit(b.id, "edited", rows)
    \/ \E b \in bills : bill_delete(b.id)
    \/ \E g \in GunnyCosts : update_settings(g)

SpecTotals == Init /\ [][NextTotals]_vars

----------------------------------------------------------------------------
(* Bills of one shop over several days: the bill date is any day,         *)
(* midnight passes, bills are edited and deleted, the gunny bag cost is    *)
(* set.                                                                    *)

DaysCreateLists == {<<>>, <<RowCent>>}
DaysEditLists == {<<>>, <<RowCent>>}
DaysGunnyCosts == {1000}

NextDays ==
    \/ \E i \in TotalsShops :
          shops = {} /\ shop_create(i[1], i[2])
    \/ \E s \in ShopIds, d \in Days, rows \in DaysCreateLists :
          /\ nextBillId <= MaxDaysBills \/ ~can_create_bill(s)
          /\ bill_create("POST", s, d, "", rows)
    \/ \E b \in bills, rows \in DaysEditLists : bill_edit(b.id, "edited", rows)
    \/ \E b \in bills : bill_delete(b.id)
    \/ \E g \in DaysGunnyCosts : update_settings(g)
    \/ NextDay

SpecDays == InitCredit /\ [][NextDays]_vars

----------------------------------------------------------------------------
(* Bill numbers near the end of the four digits.  The database holds what  *)
(* StoredBills sequential bill_create requests without item rows, all on   *)
(* day 1 for one shop with a deposit of 1000.00, leave in it.              *)

StoredBills == 10 ^ SuffixWidth - 2

StoredBill(i) ==
    [id |-> i, shop |-> 1,
     bill_number |-> BillPrefix \o strftime_Ymd(1) \o <<Dash>> \o Format_d(i, SuffixWidth),
     bill_date |-> 1, subtotal |-> 0, gunny_bag_cost |-> 0, total_amount |-> 0,
     notes |-> "", created_at |-> 1]

InitOverflow ==
    /\ today = 1
    /\ db_rounding = "half_even"
    /\ settings = [gunny_bag_cost |-> 0]
    /\ shops = {[id |-> 1, name |-> "a", initial_deposit |-> 100000, is_active |-> TRUE]}
    /\ deposits = <<[shop |-> 1, amount |-> 100000, deposit_date |-> 1]>>
    /\ payments = <<>>
    /\ bills = {StoredBill(i) : i \in 1..StoredBills}
    /\ items = [i \in 1..StoredBills |-> <<>>]
    /\ nextShopId = 2
    /\ nextBillId = StoredBills + 1
    /\ last = Response("ok", 0)
    /\ procs = [p \in Procs |-> Idle]
    /\ issued = {}

\* The bills a request of this specification names: the last stored one and
\* those created since.
RecentBills == {b \in bills : b.id >= StoredBills}

NextOverflow ==
    \/ /\ nextBillId <= StoredBills + MaxOverflowBills
       /\ bill_create("POST", 1, today, "", <<>>)
    \/ \E b \in RecentBills : bill_delete(b.id)
    \/ NextDay

SpecOverflow == InitOverflow /\ [][NextOverflow]_vars

----------------------------------------------------------------------------
(* Shops created from the shop page and from the settings page, with      *)
(* names that repeat and deposits that are no number, among deposits and  *)
(* bills.                                                                  *)

PageShops == {<<"a", 100000>>, <<"b", 0>>}
SettingsShops == {<<"a", 50000>>, <<"c", 50000>>}

NextShops ==
    \/ \E i \in PageShops : shop_create(i[1], i[2])
    \/ \E i \in SettingsShops : create_shop(i[1], i[2])
    \/ shop_create_raises("d")
    \/ \E s \in ShopIds : Entries < MaxEntries /\ add_deposit(s, 100, today)
    \/ \E s \in ShopIds :
          /\ nextBillId <= MaxInputBills \/ ~can_create_bill(s)
          /\ bill_create("POST", s, today, "", <<RowCent>>)

SpecShops == InitCredit /\ [][NextShops]_vars

----------------------------------------------------------------------------
(* What the forms accept: amounts that are zero, negative or no number,    *)
(* item rows that are zero or no number, dated payments and bills, and     *)
(* the day-wise report; all within day 1.                                  *)

InputShops == {<<"a", 100000>>}
InputAmounts == {-100, 0, 100}
InputCreateLists == {<<RowCent, BadRow, RowCent>>, <<RowZero>>, <<RowSpec>>}
InputEditLists == {<<BadRow>>, <<RowCent>>}

NextInput ==
    \/ \E i \in InputShops : shop_create(i[1], i[2])
    \/ \E s \in ShopIds, a \in InputAmounts :
          Entries < MaxEntries /\ add_deposit(s, a, today)
    \/ \E s \in ShopIds, a \in InputAmounts, d \in Days :
          Entries < MaxEntries /\ add_payment(s, a, d)
    \/ \E s \in ShopIds : add_entry_raises(s)
    \/ \E s \in ShopIds, d \in Days, rows \in InputCreateLists :
          /\ nextBillId <= MaxInputBills \/ ~can_create_bill(s)
          /\ bill_create("POST", s, d, "", rows)
    \/ \E b \in bills, rows \in InputEditLists : bill_edit(b.id, "edited", rows)
    \/ \E b \in bills : bill_delete(b.id)
    \/ \E d1 \in Days, d2 \in Days, s \in ShopIds \cup {0} : day_wise_bills(d1, d2, s)

SpecInput == InitCredit /\ [][NextInput]_vars

----------------------------------------------------------------------------
(* The credit gate (SpecCredit) *)

\* The bills of shop s that a step inserts
NewBillsOf(s) == {b \in bills' : b.shop = s /\ b.id >= nextBillId}

\* C1: a bill_create request (GET or POST) for a shop whose pending amount
\* (total bills - total payments) is at or above five times its total
\* deposits is refused and persists no Bill and no BillItem; below that the
\* request is admitted (the form is shown or the bill is created).
C1_CreditGate ==
    [][\A s \in ShopIds :
         LET pending == total_bills(s) - total_payments(s)
             limit == 5 * total_deposits(s)
         IN /\ pending >= limit =>
                 /\ NewBillsOf(s) = {}
                 /\ last' # last => last' # Response("form", s)
            /\ pending < limit =>
                 (last' # last => last' # Response("refused", s))
            /\ (last' # last /\ last' = Response("refused", s)) =>
                 (bills' = bills /\ items' = items)]_vars

\* C1 witness: deposits of 1000.00 and a pending amount of exactly 5000.00
\* (4999.99 was admitted, then 0.01), and the next request is refused.
C1_Witness ==
    \E s \in ShopIds :
        /\ last = Response("refused", s)
        /\ total_deposits(s) = 100000
        /\ pending_amount(s) = 500000
        /\ \E b \in bills : b.shop = s /\ b.total_amount = 499999

\* C2: the credit limit is a ceiling the pending amount does not reach: in
\* every reachable state every shop's pending amount is strictly below its
\* credit limit, five times its total deposits.
C2_PendingBelowLimit ==
    \A s \in ShopIds : total_bills(s) - total_payments(s) < 5 * total_deposits(s)

\* C3 as stated: a shop whose total deposits are zero is never allowed to
\* create a bill, whatever its bills and payments are.
C3_NoDepositNoBill ==
    [][\A s \in ShopIds :
         total_deposits(s) = 0 => (~can_create_bill(s) /\ NewBillsOf(s) = {})]_vars

\* C3 amended: a shop whose total deposits are zero and whose payments do
\* not exceed its bills is not allowed to create a bill.
C3_NoDepositNoDebtNoBill ==
    [][\A s \in ShopIds :
         (total_deposits(s) = 0 /\ total_bills(s) - total_payments(s) >= 0)
            => (~can_create_bill(s) /\ NewBillsOf(s) = {})]_vars

\* C3 witness: a shop without deposits that owes what it once was billed
\* (it overpaid, was billed, and now stands at zero) is refused.
C3_Witness ==
    \E s \in ShopIds :
        /\ last = Response("refused", s)
        /\ total_deposits(s) = 0
        /\ total_bills(s) > 0
        /\ pending_amount(s) >= 0

----------------------------------------------------------------------------
(* Bill totals (SpecTotals) *)

ItemsOf(b) == items[b.id]
ItemIndices(b) == 1..Len(items[b.id])

\* C4: a bill's stored subtotal is the sum of total_price over its current
\* items and its stored gunny_bag_cost the sum of their gunny_cost, after
\* every change of its items, the deletion of items by bill_edit included;
\* a bill left without items has subtotal, gunny_bag_cost and total_amount 0.
C4_TotalsFollowItems ==
    \A b \in bills :
        /\ b.subtotal = SumSeq(Prices(ItemsOf(b)))
        /\ b.gunny_bag_cost = SumSeq(GunnyCostsOf(ItemsOf(b)))
        /\ ItemsOf(b) = <<>> => b.total_amount = 0

\* C5: every stored bill has total_amount = subtotal + gunny_bag_cost.
C5_TotalIsSubtotalPlusGunny ==
    \A b \in bills : b.total_amount = b.subtotal + b.gunny_bag_cost

\* C5 witness: 3 bags, 100 kg at 20.00 under a gunny bag cost of 10.00:
\* subtotal 2000.00, gunny bag cost 30.00, total 2030.00.
C5_Witness ==
    \E b \in bills :
        /\ ItemsOf(b) # <<>>
        /\ b.subtotal = 200000 /\ b.gunny_bag_cost = 3000 /\ b.total_amount = 203000

\* C6 as stated: the stored total_price of an item with weight and rate of
\* at least 0.01 is weight_kg * rate_per_kg exactly, and the bill's subtotal
\* is the exact sum of these products.
C6_ExactProduct ==
    \A b \in bills :
        /\ \A i \in ItemIndices(b) :
              LET it == ItemsOf(b)[i]
              IN (it.weight_kg >= 1 /\ it.rate_per_kg >= 1)
                    => it.total_price * 100 = it.weight_kg * it.rate_per_kg
        /\ b.subtotal * 100
              = SumSeq([i \in ItemIndices(b) |-> ItemsOf(b)[i].weight_kg * ItemsOf(b)[i].rate_per_kg])

\* C6 amended: the stored total_price is weight_kg * rate_per_kg rounded to
\* the nearest hundredth, and a step that writes the items of a bill leaves
\* the bill's subtotal at the exact sum of their stored total_price.
C6_RoundedProduct ==
    [][\A b \in bills' :
         /\ \A i \in 1..Len(items'[b.id]) :
               LET it == items'[b.id][i]
               IN (it.weight_kg >= 1 /\ it.rate_per_kg >= 1)
                     => Abs(it.total_price * 100 - it.weight_kg * it.rate_per_kg) <= 50
         /\ (items'[b.id] # <<>> /\ (b.id \notin DOMAIN items \/ items'[b.id] # items[b.id]))
               => b.subtotal = SumSeq([i \in 1..Len(items'[b.id]) |-> items'[b.id][i].total_price])]_vars

\* C6 witness: a bill of two items, one rounded at a tie (0.0250) and one
\* rounded up (249.9995 to 250.00).
C6_Witness ==
    \E b \in bills :
        /\ Len(ItemsOf(b)) = 2
        /\ \E i \in ItemIndices(b) :
              /\ ItemsOf(b)[i].weight_kg * ItemsOf(b)[i].rate_per_kg = 250
              /\ ItemsOf(b)[i].total_price \in {2, 3}
        /\ \E i \in ItemIndices(b) :
              /\ ItemsOf(b)[i].weight_kg * ItemsOf(b)[i].rate_per_kg = 2499995
              /\ ItemsOf(b)[i].total_price = 25000
        /\ b.subtotal \in {25002, 25003}

\* C7: an item written in a step has gunny_cost = number_of_bags times the
\* gunny bag cost of the settings in force in that step, and a step that
\* changes the settings changes no item and no bill.
C7_GunnyCostAtWriteTime ==
    [][/\ \A id \in DOMAIN items' :
             (id \notin DOMAIN items \/ items'[id] # items[id]) =>
                 \A i \in 1..Len(items'[id]) :
                     items'[id][i].gunny_cost
                        = items'[id][i].number_of_bags * settings.gunny_bag_cost
       /\ settings' # settings => (items' = items /\ bills' = bills)]_vars

\* C7 witness: an item written under a gunny bag cost of 10.00 keeps its
\* 30.00, and its bill its totals, under the later gunny bag cost of 0.00.
C7_Witness ==
    /\ settings.gunny_bag_cost = 0
    /\ \E b \in bills : \E i \in ItemIndices(b) :
          /\ ItemsOf(b)[i].number_of_bags = 3
          /\ ItemsOf(b)[i].gunny_cost = 3000
          /\ b.gunny_bag_cost >= 3000

----------------------------------------------------------------------------
(* Bill numbers (SpecDays, SpecOverflow) *)

NewBills == {b \in bills' : b.id >= nextBillId}
NumericSuffix(b) == ParseInt(SplitLast(b.bill_number, Dash))
IsDigit(c) == c >= Digit(0) /\ c <= Digit(9)

\* C8: while no bill has been deleted, the bill created as the k-th of its
\* calendar day carries that day's stamp and the numeric suffix k: 1 for
\* the first bill of a day, one more for each later one.
C8_KthBillOfTheDay ==
    [][Cardinality(bills) = nextBillId - 1 =>
         \A b \in NewBills :
             /\ StartsWith(b.bill_number, BillPrefix \o strftime_Ymd(today) \o <<Dash>>)
             /\ NumericSuffix(b) = Cardinality({c \in bills : c.created_at = today}) + 1
             /\ NumericSuffix(b) < 10 ^ SuffixWidth =>
                  Len(b.bill_number) = Len(BillPrefix) + 8 + 1 + SuffixWidth]_vars

\* C8 witness: nothing was deleted, the first bill of day 1 has suffix 1,
\* and the bill created on day 2 starts again at 0001 (the code points
\* 48, 48, 48, 49).
C8_Witness ==
    /\ Cardinality(bills) = nextBillId - 1
    /\ \E b, c \in bills :
          /\ b.created_at = 1 /\ SplitLast(b.bill_number, Dash) = <<48, 48, 48, 49>>
          /\ c.created_at = 2 /\ SplitLast(c.bill_number, Dash) = <<48, 48, 48, 49>>
          /\ b.id < c.id

\* C9: every bill number is "BILL-", the eight digits of the day the bill
\* was created, "-" and exactly four digits, however many bills the day
\* has; and bill creation never proposes a number that is already stored
\* (no creation ends in the error of the unique constraint).
C9_FourDigitsNoClash ==
    /\ \A b \in bills :
          /\ Len(b.bill_number) = Len(BillPrefix) + 8 + 1 + 4
          /\ StartsWith(b.bill_number, BillPrefix \o strftime_Ymd(b.created_at) \o <<Dash>>)
          /\ \A i \in 1..4 : IsDigit(b.bill_number[Len(BillPrefix) + 8 + 1 + i])
    /\ last.outcome # "error"

\* C10: a bill has its number from its first save on, and no later step
\* changes the number of a stored bill.
C10_NumberAssignedOnce ==
    [][/\ \A c \in bills' : c.bill_number # <<>>
       /\ \A b \in bills : \A c \in bills' :
             c.id = b.id => c.bill_number = b.bill_number]_vars

\* C10 witness: a bill created on day 1 and dated day 2 was edited, so saved
\* again, on day 2 and still carries the number of day 1.
C10_Witness ==
    \E b \in bills :
        /\ b.created_at = 1 /\ b.bill_date = 2 /\ today = 2
        /\ b.notes = "edited"
        /\ ItemsOf(b) # <<>>
        /\ StartsWith(b.bill_number, BillPrefix \o strftime_Ymd(1))

----------------------------------------------------------------------------
(* Shop creation (SpecShops) *)

\* C16: a step that creates a shop (from the shop page or the settings page)
\* creates exactly one shop, under a name no shop had, and exactly one
\* Deposit, for that shop and of the amount of its initial_deposit; right
\* after it the shop's total deposits are its initial_deposit, its credit
\* limit five times that and its pending amount 0.  No step creates the
\* one without the other, and a creation that is rejected (a name that
\* exists, a deposit that is no number) changes no shop and no deposit.
C16_ShopWithItsDeposit ==
    [][/\ shops \subseteq shops'
       /\ \A s \in shops' \ shops :
             /\ shops' = shops \cup {s}
             /\ ~ \E t \in shops : t.name = s.name
             /\ deposits' = Append(deposits, [shop |-> s.id, amount |-> s.initial_deposit,
                                              deposit_date |-> today])
             /\ (total_deposits(s.id))' = s.initial_deposit
             /\ (credit_limit(s.id))' = 5 * s.initial_deposit
             /\ (pending_amount(s.id))' = 0
       /\ shops' = shops =>
             \/ deposits' = deposits
             \/ /\ Len(deposits') = Len(deposits) + 1
                /\ deposits'[Len(deposits')].shop \in ShopIds
       /\ (last' # last /\ last' = Response("error", 0)) =>
             (shops' = shops /\ deposits' = deposits)]_vars

\* C16 witness: shop "a" was created from the shop page with 1000.00 and
\* shop "c" from the settings page with 500.00 (credit limit 2500.00), each
\* with its one Deposit, and the last creation, of a name that exists or
\* with a deposit that is no number, was rejected.
C16_Witness ==
    /\ last = Response("error", 0)
    /\ Len(deposits) = Cardinality(shops)
    /\ \E s, t \in shops :
          /\ s.name = "a" /\ s.initial_deposit = 100000
          /\ total_deposits(s.id) = 100000 /\ credit_limit(s.id) = 500000
          /\ t.name = "c" /\ t.initial_deposit = 50000
          /\ total_deposits(t.id) = 50000 /\ credit_limit(t.id) = 250000
          /\ pending_amount(t.id) = 0

----------------------------------------------------------------------------
(* Overlapping requests.  Each worker of Procs serves one request at a     *)
(* time; a request is a sequence of database statements, each of them      *)
(* committed on its own (no transaction.atomic, no select_for_update), and *)
(* the statements of two workers interleave freely.  procs[p].bill is the  *)
(* worker's Bill object in memory, procs[p].rows the submitted rows not    *)
(* yet looked at, procs[p].read the items calculate_totals has read, and   *)
(* procs[p].outcome what the finished request answered.                    *)

Busy(p) == procs[p].pc \notin {"idle", "done"}

\* The workers between the gate of bill_create and the INSERT of the Bill
Creating == {p \in Procs : procs[p].pc \in {"number", "insert"}}

Done(handler, outcome) ==
    [Idle EXCEPT !.pc = "done", !.handler = handler, !.outcome = outcome]

\* bill_create, POST: the credit gate and the Bill object
bill_create_begin(p, shop_id, bill_date, notes, rows) ==
    /\ ~Busy(p)
    /\ shop_id \in ShopIds
    /\ procs' = [procs EXCEPT ![p] =
          IF ~can_create_bill(shop_id)
          THEN Done("bill_create", "refused")
          ELSE [pc |-> "number", handler |-> "bill_create",
                bill |-> [id |-> 0, shop |-> shop_id, bill_number |-> <<>>,
                          bill_date |-> bill_date, subtotal |-> 0,
                          gunny_bag_cost |-> 0, total_amount |-> 0,
                          notes |-> notes, created_at |-> today],
                rows |-> rows, read |-> <<>>, outcome |-> "none"]]
    /\ UNCHANGED <<issued, today, db_rounding, settings, shops, deposits, payments,
                   bills, items, nextShopId, nextBillId, last>>

\* Bill.save: the SELECT of the day's greatest bill_number and the candidate
Bill_save_read(p) ==
    /\ procs[p].pc = "number"
    /\ procs' = [procs EXCEPT ![p].bill = Bill_save(@, bills, today),
                              ![p].pc = "insert"]
    /\ UNCHANGED <<issued, today, db_rounding, settings, shops, deposits, payments,
                   bills, items, nextShopId, nextBillId, last>>

\* Bill.save: super().save, the INSERT under the unique constraint
Bill_save_insert(p) ==
    /\ procs[p].pc = "insert"
    /\ IF UniqueViolation(procs[p].bill, bills)
       THEN \* IntegrityError, caught by bill_create
            /\ procs' = [procs EXCEPT ![p] = [Done("bill_create", "error")
                                                EXCEPT !.bill = procs[p].bill]]
            /\ UNCHANGED <<issued, bills, items, nextBillId>>
       ELSE LET bill == [procs[p].bill EXCEPT !.id = nextBillId, !.created_at = today]
            IN /\ bills' = bills \cup {bill}
               /\ items' = (bill.id :> <<>>) @@ items
               /\ nextBillId' = nextBillId + 1
               /\ issued' = issued \cup {bill.bill_number}
               /\ procs' = [procs EXCEPT ![p].bill = bill, ![p].pc = "rows"]
    /\ UNCHANGED <<today, db_rounding, settings, shops, deposits, payments,
                   nextShopId, last>>

\* bill_edit, POST: the bill is fetched, its date tested, the notes set
bill_edit_begin(p, bill_id, notes, rows) ==
    /\ ~Busy(p)
    /\ \E bill \in bills :
          /\ bill.id = bill_id
          /\ procs' = [procs EXCEPT ![p] =
                IF bill.bill_date # today
                THEN Done("bill_edit", "not_today")
                ELSE [pc |-> "delete", handler |-> "bill_edit",
                      bill |-> [bill EXCEPT !.notes = notes],
                      rows |-> rows, read |-> <<>>, outcome |-> "none"]]
    /\ UNCHANGED <<issued, today, db_rounding, settings, shops, deposits, payments,
                   bills, items, nextShopId, nextBillId, last>>

\* bill_edit: bill.items.all().delete()
bill_edit_delete(p) ==
    /\ procs[p].pc = "delete"
    /\ items' = [items EXCEPT ![procs[p].bill.id] = <<>>]
    /\ procs' = [procs EXCEPT ![p].pc = "rows"]
    /\ UNCHANGED <<issued, today, db_rounding, settings, shops, deposits, payments,
                   bills, nextShopId, nextBillId, last>>

\* The loop over the submitted rows, one row: a blank row is passed over, a
\* bad row raises, any other row is inserted by BillItem.save; after the
\* last row the request answers with success.
BillItem_create(p) ==
    /\ procs[p].pc = "rows"
    /\ LET rows == procs[p].rows
       IN IF rows = <<>>
          THEN /\ procs' = [procs EXCEPT ![p] = [Done(procs[p].handler, "ok")
                                                   EXCEPT !.bill = procs[p].bill]]
               /\ UNCHANGED items
          ELSE IF Head(rows).blank
          THEN /\ procs' = [procs EXCEPT ![p].rows = Tail(rows)]
               /\ UNCHANGED items
          ELSE IF Head(rows).raises
          THEN /\ procs' = [procs EXCEPT ![p] = [Done(procs[p].handler, "error")
                                                   EXCEPT !.bill = procs[p].bill]]
               /\ UNCHANGED items
          ELSE /\ items' = [items EXCEPT ![procs[p].bill.id] =
                              Append(@, BillItem_save(Head(rows), settings.gunny_bag_cost,
                                                      db_rounding))]
               /\ procs' = [procs EXCEPT ![p].rows = Tail(rows), ![p].pc = "read"]
    /\ UNCHANGED <<issued, today, db_rounding, settings, shops, deposits, payments,
                   bills, nextShopId, nextBillId, last>>

\* Bill.calculate_totals: items = self.items.all() and the sums over them
calculate_totals_read(p) ==
    /\ procs[p].pc = "read"
    /\ procs' = [procs EXCEPT ![p].read = items[procs[p].bill.id], ![p].pc = "write"]
    /\ UNCHANGED <<issued, today, db_rounding, settings, shops, deposits, payments,
                   bills, items, nextShopId, nextBillId, last>>

\* Bill.calculate_totals: self.save(), the UPDATE of the whole row from the
\* worker's object
calculate_totals_write(p) ==
    /\ procs[p].pc = "write"
    /\ LET saved == calculate_totals(procs[p].bill, procs[p].read, bills, today, db_rounding)
       IN /\ bills' = PutBill(bills, saved)
          /\ procs' = [procs EXCEPT ![p].bill = saved, ![p].read = <<>>, ![p].pc = "rows"]
    /\ UNCHANGED <<issued, today, db_rounding, settings, shops, deposits, payments,
                   items, nextShopId, nextBillId, last>>

----------------------------------------------------------------------------
(* Two workers create bills of one shop on one day. *)

MaxRaceBills == 2

RaceShops == {<<"a", 100000>>}
RaceCreateLists == {<<>>, <<RowCent>>}

NextRace ==
    \/ \E i \in RaceShops :
          shops = {} /\ shop_create(i[1], i[2])
    \/ \E p \in Procs, s \in ShopIds, rows \in RaceCreateLists :
          /\ nextBillId + Cardinality(Creating \ {p}) <= MaxRaceBills
          /\ bill_create_begin(p, s, today, "", rows)
    \/ \E p \in Procs : Bill_save_read(p)
    \/ \E p \in Procs : Bill_save_insert(p)
    \/ \E p \in Procs : BillItem_create(p)
    \/ \E p \in Procs : calculate_totals_read(p)
    \/ \E p \in Procs : calculate_totals_write(p)

SpecRace == InitCredit /\ [][NextRace]_vars

----------------------------------------------------------------------------
(* Two workers edit one bill of today. *)

MaxItemsBills == 1

ItemsEditLists == {<<RowCent>>, <<RowBig>>}

NextItems ==
    \/ \E i \in RaceShops :
          shops = {} /\ shop_create(i[1], i[2])
    \/ \E s \in ShopIds :
          /\ nextBillId <= MaxItemsBills
          /\ bill_create("POST", s, today, "", <<>>)
    \/ \E p \in Procs, b \in bills, rows \in ItemsEditLists :
          bill_edit_begin(p, b.id, "edited", rows)
    \/ \E p \in Procs : bill_edit_delete(p)
    \/ \E p \in Procs : BillItem_create(p)
    \/ \E p \in Procs : calculate_totals_read(p)
    \/ \E p \in Procs : calculate_totals_write(p)

SpecItems == InitCredit /\ [][NextItems]_vars

----------------------------------------------------------------------------
(* Input and reports (SpecInput) *)

\* C13: invalid numeric input is rejected before any write, so that in
\* every reachable state every Deposit and every Payment has an amount of at
\* least 0.01 and every BillItem has number_of_bags >= 1, weight_kg >= 0.01
\* and rate_per_kg >= 0.01.
C13_OnlyValidRows ==
    /\ \A i \in 1..Len(deposits) : deposits[i].amount >= 1
    /\ \A i \in 1..Len(payments) : payments[i].amount >= 1
    /\ \A b \in bills : \A i \in ItemIndices(b) :
          /\ ItemsOf(b)[i].number_of_bags >= 1
          /\ ItemsOf(b)[i].weight_kg >= 1
          /\ ItemsOf(b)[i].rate_per_kg >= 1

\* C14: bill creation has no partial commit.  A bill_create that inserted
\* its Bill row and then failed leaves no Bill and no BillItem of the
\* request (the shop's total bills and pending amount are as before); one
\* that succeeded leaves the bill with the totals of its items.
C14_NoPartialCommit ==
    [][nextBillId' # nextBillId =>
         IF last'.outcome = "error"
         THEN /\ bills' = bills /\ items' = items
              /\ \A s \in ShopIds : /\ (total_bills(s))' = total_bills(s)
                                     /\ (pending_amount(s))' = pending_amount(s)
         ELSE \E b \in bills' :
                 /\ b.id = nextBillId
                 /\ b.subtotal = SumSeq(Prices(items'[b.id]))
                 /\ b.gunny_bag_cost = SumSeq(GunnyCostsOf(items'[b.id]))
                 /\ b.total_amount = b.subtotal + b.gunny_bag_cost]_vars

PaymentsOn(shop_id, date) ==
    SumSeq(Amounts(SelectSeq(payments, LAMBDA x : x.shop = shop_id /\ x.payment_date = date)))

RECURSIVE NetOverDays(_, _)
\* Day by day: the bills dated on each of the days 1..date less the payments
\* dated on it
NetOverDays(shop_id, date) ==
    IF date < 1 THEN 0
    ELSE get_daily_total(shop_id, date) - PaymentsOn(shop_id, date)
            + NetOverDays(shop_id, date - 1)

\* C17: for every shop and date the net amount up to the date is the total
\* of the shop's bills dated on or before it less the total of its payments
\* dated on or before it (later rows excluded, no rows 0.00), and a day-wise
\* report yields it as the balance of each shop up to each date of the range
\* (the request ends with the report, not with an exception).
C17_NetAmountUpTo ==
    /\ \A s \in ShopIds : \A d \in Days :
          get_net_amount_up_to_date(s, d) = NetOverDays(s, d)
    /\ last.outcome # "attribute_error"

----------------------------------------------------------------------------
(* Editing and deleting bills over several days (SpecDays) *)

\* C18: bill_edit modifies a bill only if it was created today.  No step
\* changes the notes, the items or the totals of a bill created on an
\* earlier calendar day, whatever its bill_date is, and every bill created
\* today can be edited: an edit is answered with the refusal only while some
\* bill was not created today.
C18_EditOnlyIfCreatedToday ==
    [][/\ \A b \in bills : b.created_at < today =>
             \A c \in bills' : c.id = b.id => c = b /\ items'[c.id] = items[b.id]
       /\ (last' # last /\ last'.outcome = "not_today") =>
             \E b \in bills : b.created_at # today]_vars

\* C19: a bill number is never reassigned to a different bill.  In any
\* sequential history of bill creations and deletions, the number of a newly
\* created bill was never issued before, also when the bill that held it has
\* been deleted (create, delete, create yields two different numbers).
C19_NeverReissued ==
    [][\A b \in bills' : b.id >= nextBillId => b.bill_number \notin issued]_vars

----------------------------------------------------------------------------
(* Overlapping bill creations (SpecRace) *)

\* C11: under any interleaving of overlapping bill creations of one day, each
\* a read of the day's greatest bill number followed by a separate insert
\* without lock, no two persisted bills share a bill_number, and a creation
\* whose candidate number exists when it inserts is rejected by the unique
\* constraint and persists no Bill.
C11_UniqueUnderRace ==
    [][/\ \A a, b \in bills' : a.bill_number = b.bill_number => a = b
       /\ \A p \in Procs :
             (/\ procs[p].pc = "insert" /\ procs'[p].pc # "insert"
              /\ \E b \in bills : b.bill_number = procs[p].bill.bill_number)
             => /\ bills' = bills /\ items' = items
                /\ procs'[p].pc = "done" /\ procs'[p].outcome = "error"]_vars

C11_Witness ==
    \E p, q \in Procs :
       /\ procs[p].pc = "done" /\ procs[p].outcome = "error"
       /\ procs[q].handler = "bill_create" /\ procs[q].bill \in bills
       /\ procs[q].bill.bill_number = procs[p].bill.bill_number
       /\ Cardinality(bills) = 1

\* C12: a bill-number collision is recovered by a retry with a fresh
\* candidate: every admitted bill creation ends with its bill persisted under
\* a bill_number of its own, so no admitted creation ends with the error of
\* the rejected insert.
C12_EveryAdmittedCreationPersists ==
    \A p \in Procs :
       (procs[p].pc = "done" /\ procs[p].handler = "bill_create"
           /\ procs[p].outcome # "refused")
       => /\ procs[p].outcome = "ok"
          /\ \E b \in bills : /\ b.id = procs[p].bill.id
                              /\ b.bill_number = procs[p].bill.bill_number

----------------------------------------------------------------------------
(* Overlapping item writes on one bill (SpecItems) *)

\* C15: a BillItem write and the recompute of the bill's totals it triggers
\* are atomic: under any interleaving of two item writes on one bill, once
\* the writes have completed the bill's subtotal, gunny_bag_cost and
\* total_amount are the sums over its current items.
C15_TotalsAfterOverlappingWrites ==
    (\A p \in Procs : ~Busy(p)) =>
       \A b \in bills :
          /\ b.subtotal = SumSeq(Prices(ItemsOf(b)))
          /\ b.gunny_bag_cost = SumSeq(GunnyCostsOf(ItemsOf(b)))
          /\ b.total_amount = b.subtotal + b.gunny_bag_cost

====
